---- MODULE Spec2Model ----
(***************************************************************************)
(* Model of src/main.js: the desert scene's crosshair hover/selection      *)
(* engine, the touch joystick and the per-frame camera movement; of the    *)
(* script-tag variant's startup guard; and of the data-cloud demo's        *)
(* top-level script (src/unnamed/part_001).                                *)
(*                                                                         *)
(* Numbers that are floats in the source are fixed-point integers here,    *)
(* in units of 1/Scale (0.6 is 600, 1.2 is 1200).  Meshes are numbered in  *)
(* creation order: 0 is the ground plane, 1.. are the registered objects.  *)
(***************************************************************************)
EXTENDS Integers, Sequences, FiniteSets, TLC

\* ------------------------------------------------------------------ bounds
\* add-primitive clicks explored after the five prepopulated objects
MaxAdded == 2
\* meshes one centre ray may pierce in a frame
MaxHits == 2
\* touches one touch event may report in changedTouches
MaxChanged == 2
\* textureLoader.load calls explored (file input and captured photos together)
MaxLoads == 2
\* capture-photo clicks explored
MaxCaptures == 2
\* registry entries whose names the two <select> lists are set to
MaxChosen == 2
\* add-primitive clicks explored between frames, where every registered mesh
\* multiplies the centre rays of a frame
MaxSceneAdded == 1
\* points the data-cloud demo generates (500 in the source)
DATA_POINTS_COUNT == 4

\* -------------------------------------------------------- program constants
Scale == 10 * 10 * 10
null == -1
ground == 0
NumPrepop == 5
HoverIntensity == 600
SelectedIntensity == 1000
DefaultIntensity == 1000
MoveSpeed == 150
FloorY == 1200
SpinRate == 200

VARIABLES
    objects,            \* registry: sequence of [obj, name]
    material,           \* mesh -> [emissive, emissiveIntensity]
    rotationY,          \* mesh -> rotation.y
    spinningObjects,    \* set of meshes
    hoveredObject,
    selectedObject,
    joystickPointerId,
    joystickCenter,
    joystickPos,
    joystickVector,
    cameraPosition,     \* camera.position
    cameraDirection,    \* camera.getWorldDirection()
    controlsPosition,   \* camera.position as controls.update() left it this frame
    touches,            \* identifiers of the touches now down on the joystick base
    changedTouches,     \* event.changedTouches of the touch event being handled
    ray,                \* this frame's centre ray: mesh -> hit distance (0: missed)
    intersects,         \* this frame's raycaster.intersectObjects result
    tapBefore,          \* [hoveredObject, selectedObject] when the last tap/click handler began
    joystickBefore,     \* the joystick's variables when the last joystick listener began
    loadedTexture,      \* null or the texture the last completed load produced
    materialMap,        \* mesh -> material.map (null or a texture)
    textureLoads,       \* the textureLoader.load calls in flight
    texturesCreated,    \* number of textureLoader.load calls so far
    captures,           \* the capture-photo handler's invocations: position and stream
    videoSrcObject,     \* video.srcObject: null or the capture whose stream it is
    videoDisplay,       \* video.style.display
    onloadedmetadata,   \* video.onloadedmetadata: null or the capture whose promise it resolves
    metadataPending,    \* the video element has yet to report its source's metadata
    notice,             \* the alert raised by the handler that ran last ("" if none)
    objName,            \* the <select> value read by the handler that ran last
    applyTextureOptions, \* names of the options appended to the apply-texture list
    spinObjectsOptions, \* names of the options appended to the toggle-spin list
    library,            \* which of THREE and THREE.OrbitControls the page provides
    consoleError,       \* startup has logged an error
    running,            \* setup completed: listeners added and the frame loop started
    statement,          \* data-cloud script: the top-level statement to run next
    scene,              \* data-cloud script: let scene ("undefined" until assigned)
    camera,             \* data-cloud script: let camera
    renderer,           \* data-cloud script: let renderer
    controls,           \* data-cloud script: let controls
    children,           \* data-cloud script: what scene.add has put in the scene
    data,               \* data-cloud script: the generated points' values
    overlay,            \* data-cloud script: the status shown by the version overlay
    uncaught,           \* data-cloud script: the error that ended it ("none" if none)
    lastEvent           \* the handler that ran last

vars == <<objects, material, rotationY, spinningObjects, hoveredObject, selectedObject,
          joystickPointerId, joystickCenter, joystickPos, joystickVector,
          cameraPosition, cameraDirection, controlsPosition,
          touches, changedTouches, ray, intersects, tapBefore, joystickBefore,
          loadedTexture, materialMap, textureLoads, texturesCreated,
          captures, videoSrcObject, videoDisplay, onloadedmetadata, metadataPending,
          notice, objName, applyTextureOptions, spinObjectsOptions,
          library, consoleError, running,
          statement, scene, camera, renderer, controls, children, data, overlay, uncaught,
          lastEvent>>

selectionVars == <<hoveredObject, selectedObject, material>>
registryVars == <<objects, rotationY, spinningObjects>>
joystickVars == <<joystickPointerId, joystickCenter, joystickPos, joystickVector>>
cameraVars == <<cameraPosition, cameraDirection, controlsPosition>>
textureVars == <<loadedTexture, materialMap, textureLoads, texturesCreated>>
captureVars == <<captures, videoSrcObject, videoDisplay, onloadedmetadata, metadataPending>>
startupVars == <<library, consoleError, running>>
pageVars == <<applyTextureOptions, spinObjectsOptions, library, consoleError, running>>
dataCloudVars == <<statement, scene, camera, renderer, controls, children, data, overlay,
                   uncaught>>

\* ------------------------------------------------------------ arithmetic
\* a / b rounded to the nearest integer (b > 0)
RoundDiv(a, b) ==
    IF a >= 0 THEN (2 * a + b) \div (2 * b) ELSE -((2 * (-a) + b) \div (2 * b))

RECURSIVE SqrtSearch(_, _, _)
SqrtSearch(n, lo, hi) ==
    IF lo >= hi THEN lo
    ELSE LET mid == (lo + hi + 1) \div 2
         IN IF mid * mid <= n THEN SqrtSearch(n, mid, hi) ELSE SqrtSearch(n, lo, mid - 1)

\* Math.sqrt on a non-negative integer, rounded to the nearest integer
Sqrt(n) ==
    LET r == SqrtSearch(n, 0, 46340)
    IN IF n - r * r > r THEN r + 1 ELSE r

\* ------------------------------------------------------------ Vector3
Vec3(x, y, z) == [x |-> x, y |-> y, z |-> z]

Dot(a, b) == a.x * b.x + a.y * b.y + a.z * b.z

\* Vector3.crossVectors(a, b) of two fixed-point vectors
CrossVectors(a, b) ==
    Vec3(RoundDiv(a.y * b.z - a.z * b.y, Scale),
         RoundDiv(a.z * b.x - a.x * b.z, Scale),
         RoundDiv(a.x * b.y - a.y * b.x, Scale))

\* Vector3.normalize(): divideScalar(length() || 1)
Normalize(v) ==
    LET len == Sqrt(Dot(v, v))
        d == IF len = 0 THEN Scale ELSE len
    IN Vec3(RoundDiv(v.x * Scale, d), RoundDiv(v.y * Scale, d), RoundDiv(v.z * Scale, d))

\* Vector3.addScaledVector(v, s)
AddScaledVector(p, v, s) ==
    Vec3(p.x + RoundDiv(v.x * s, Scale), p.y + RoundDiv(v.y * s, Scale),
         p.z + RoundDiv(v.z * s, Scale))

CameraUp == Vec3(0, Scale, 0)

\* ------------------------------------------------------------ registry
PrimitiveTypes == <<"box", "sphere", "cone", "cylinder", "plane">>

\* values of the primitive <select> explored by add-primitive clicks
PrimitiveOptions == {"box", "plane"}

Meshes(objs) == {objs[i].obj : i \in DOMAIN objs}

\* new THREE.MeshStandardMaterial({color, roughness, metalness}): no emissive tint
NewMaterial == [emissive |-> "black", emissiveIntensity |-> DefaultIntensity]

\* addObject(obj, name): objects.push({obj, name})
addObject(objs, obj, name) == Append(objs, [obj |-> obj, name |-> name])

RECURSIVE prepopulateObjects(_)
\* the registry after i iterations of the prepopulation loop
prepopulateObjects(i) ==
    IF i = 0 THEN <<>>
    ELSE addObject(prepopulateObjects(i - 1), i,
                   "prepop" \o ToString(i) \o "_" \o PrimitiveTypes[((i - 1) % Len(PrimitiveTypes)) + 1])

\* variant: a new option is put at the head of the toggle-spin list
addOptions_SpinFirst(lists, name) ==
    [apply |-> Append(lists.apply, name), spin |-> <<name>> \o lists.spin]

\* addObject(obj, name): one option appended to each of the two <select> lists
addOptions(lists, name) ==
    [apply |-> Append(lists.apply, name), spin |-> Append(lists.spin, name)]

RECURSIVE prepopulateOptions(_)
\* the options the two lists have gained after i iterations of the prepopulation loop
prepopulateOptions(i) ==
    IF i = 0 THEN [apply |-> <<>>, spin |-> <<>>]
    ELSE addOptions(prepopulateOptions(i - 1), prepopulateObjects(i)[i].name)

\* variant: the add-primitive handler names objects by their type alone
PrimitiveName_NoIndex(objs, type) == "obj_" \o type

\* the name the add-primitive handler gives the next object
PrimitiveName(objs, type) == "obj" \o ToString(Len(objs) + 1) \o "_" \o type

\* ------------------------------------------------------------ highlights
\* material.emissive.set(0x000000); material.emissiveIntensity = 0
ClearHighlight(mat, o) ==
    [mat EXCEPT ![o] = [emissive |-> "black", emissiveIntensity |-> 0]]

\* material.emissive.set('turquoise'); material.emissiveIntensity = intensity
SetHighlight(mat, o, intensity) ==
    [mat EXCEPT ![o] = [emissive |-> "turquoise", emissiveIntensity |-> intensity]]

\* ------------------------------------------------------------ ray cast
RECURSIVE InsertByDistance(_, _)
\* insert hit h into the nearest-first list s, after the hits that are not farther
InsertByDistance(s, h) ==
    IF s = <<>> THEN <<h>>
    ELSE IF Head(s).distance <= h.distance THEN <<Head(s)>> \o InsertByDistance(Tail(s), h)
    ELSE <<h>> \o s

RECURSIVE IntersectList(_, _, _)
\* the hits of the first n meshes of list, nearest first
IntersectList(list, r, n) ==
    IF n = 0 THEN <<>>
    ELSE LET rest == IntersectList(list, r, n - 1)
             m == list[n]
         IN IF r[m] > 0 THEN InsertByDistance(rest, [object |-> m, distance |-> r[m]])
            ELSE rest

\* variant: the hits in registry order, never sorted by distance
IntersectObjects_Unsorted(objs, r) ==
    SelectSeq([i \in DOMAIN objs |-> [object |-> objs[i].obj, distance |-> r[objs[i].obj]]],
              LAMBDA h : h.distance > 0)

\* raycaster.intersectObjects(objects.map(o => o.obj))
IntersectObjects(objs, r) ==
    IntersectList([i \in DOMAIN objs |-> objs[i].obj], r, Len(objs))

\* the centre rays explored: at most MaxHits meshes of the scene pierced, at the
\* distances 1, 2, .. in some order
Rays(objs) ==
    LET inScene == Meshes(objs) \cup {ground}
    IN UNION {
         { [m \in inScene |-> IF m \in hit THEN d[m] ELSE 0] :
             d \in {f \in [hit -> 1..Cardinality(hit)] :
                      \A a, b \in hit : a # b => f[a] # f[b]} } :
         hit \in {h \in SUBSET inScene : Cardinality(h) <= MaxHits} }

\* ------------------------------------------------------------ hover update
\* variant: the new hit gets the hover tint even when it is the selected object
HoverUpdate_TintsSelected(hits, hovered, selected, mat) ==
    IF Len(hits) > 0 THEN
        LET intersected == hits[1].object
        IN IF hovered # intersected THEN
               LET cleared == IF hovered # null /\ hovered # selected
                                 THEN ClearHighlight(mat, hovered) ELSE mat
               IN [hoveredObject |-> intersected,
                   material |-> SetHighlight(cleared, intersected, HoverIntensity)]
           ELSE [hoveredObject |-> hovered, material |-> mat]
    ELSE [hoveredObject |-> null,
          material |-> IF hovered # null /\ hovered # selected
                          THEN ClearHighlight(mat, hovered) ELSE mat]

\* variant: the object the ray leaves is cleared even when it is the selected object
HoverUpdate_ClearsSelected(hits, hovered, selected, mat) ==
    IF Len(hits) > 0 THEN
        LET intersected == hits[1].object
        IN IF hovered # intersected THEN
               LET cleared == IF hovered # null THEN ClearHighlight(mat, hovered) ELSE mat
               IN [hoveredObject |-> intersected,
                   material |-> IF intersected # selected
                                   THEN SetHighlight(cleared, intersected, HoverIntensity)
                                   ELSE cleared]
           ELSE [hoveredObject |-> hovered, material |-> mat]
    ELSE [hoveredObject |-> null,
          material |-> IF hovered # null THEN ClearHighlight(mat, hovered) ELSE mat]

\* variant: the object the ray leaves for another keeps its hover tint
HoverUpdate_KeepsOldTint(hits, hovered, selected, mat) ==
    IF Len(hits) > 0 THEN
        LET intersected == hits[1].object
        IN IF hovered # intersected THEN
               [hoveredObject |-> intersected,
                material |-> IF intersected # selected
                                THEN SetHighlight(mat, intersected, HoverIntensity)
                                ELSE mat]
           ELSE [hoveredObject |-> hovered, material |-> mat]
    ELSE [hoveredObject |-> null,
          material |-> IF hovered # null /\ hovered # selected
                          THEN ClearHighlight(mat, hovered) ELSE mat]

\* variant: a hit that is already the hovered object has its tint cleared
HoverUpdate_Flickers(hits, hovered, selected, mat) ==
    IF Len(hits) > 0 THEN
        LET intersected == hits[1].object
        IN IF hovered # intersected THEN
               LET cleared == IF hovered # null /\ hovered # selected
                                 THEN ClearHighlight(mat, hovered) ELSE mat
               IN [hoveredObject |-> intersected,
                   material |-> IF intersected # selected
                                   THEN SetHighlight(cleared, intersected, HoverIntensity)
                                   ELSE cleared]
           ELSE [hoveredObject |-> hovered,
                 material |-> IF hovered # selected THEN ClearHighlight(mat, hovered) ELSE mat]
    ELSE [hoveredObject |-> null,
          material |-> IF hovered # null /\ hovered # selected
                          THEN ClearHighlight(mat, hovered) ELSE mat]

\* animate(): the hover transition on this frame's intersection list
HoverUpdate(hits, hovered, selected, mat) ==
    IF Len(hits) > 0 THEN
        LET intersected == hits[1].object
        IN IF hovered # intersected THEN
               LET cleared == IF hovered # null /\ hovered # selected
                                 THEN ClearHighlight(mat, hovered) ELSE mat
               IN [hoveredObject |-> intersected,
                   material |-> IF intersected # selected
                                   THEN SetHighlight(cleared, intersected, HoverIntensity)
                                   ELSE cleared]
           ELSE [hoveredObject |-> hovered, material |-> mat]
    ELSE [hoveredObject |-> null,
          material |-> IF hovered # null /\ hovered # selected
                          THEN ClearHighlight(mat, hovered) ELSE mat]

\* ------------------------------------------------------------ tap / click
\* variant: deselecting forgets to clear the highlight
WindowTouchEndHandler_KeepsTint(hovered, selected, mat) ==
    IF hovered # null /\ hovered # selected THEN
        [selectedObject |-> hovered,
         material |-> SetHighlight(IF selected # null THEN ClearHighlight(mat, selected) ELSE mat,
                                   hovered, SelectedIntensity)]
    ELSE IF hovered = null /\ selected # null THEN
        [selectedObject |-> null, material |-> mat]
    ELSE [selectedObject |-> selected, material |-> mat]

\* variant: the previous selection is left lit when the selection moves
WindowTouchEndHandler_LeavesOld(hovered, selected, mat) ==
    IF hovered # null /\ hovered # selected THEN
        [selectedObject |-> hovered,
         material |-> SetHighlight(mat, hovered, SelectedIntensity)]
    ELSE [selectedObject |-> selected, material |-> mat]

\* window 'touchend' listener
WindowTouchEndHandler(hovered, selected, mat) ==
    IF hovered # null /\ hovered # selected THEN
        [selectedObject |-> hovered,
         material |-> SetHighlight(IF selected # null THEN ClearHighlight(mat, selected) ELSE mat,
                                   hovered, SelectedIntensity)]
    ELSE IF hovered = null /\ selected # null THEN
        [selectedObject |-> null, material |-> ClearHighlight(mat, selected)]
    ELSE [selectedObject |-> selected, material |-> mat]

\* variant: selecting another object forgets to clear the old selection
WindowClickHandler_KeepsOld(hovered, selected, mat) ==
    IF hovered # null /\ hovered # selected THEN
        [selectedObject |-> hovered,
         material |-> SetHighlight(mat, hovered, SelectedIntensity)]
    ELSE IF hovered = null /\ selected # null THEN
        [selectedObject |-> null, material |-> ClearHighlight(mat, selected)]
    ELSE [selectedObject |-> selected, material |-> mat]

\* variant: a click on the selected object while it is hovered deselects it
WindowClickHandler_Toggles(hovered, selected, mat) ==
    IF hovered # null /\ hovered # selected THEN
        [selectedObject |-> hovered,
         material |-> SetHighlight(IF selected # null THEN ClearHighlight(mat, selected) ELSE mat,
                                   hovered, SelectedIntensity)]
    ELSE IF selected # null THEN
        [selectedObject |-> null, material |-> ClearHighlight(mat, selected)]
    ELSE [selectedObject |-> selected, material |-> mat]

\* window 'click' listener
WindowClickHandler(hovered, selected, mat) ==
    IF hovered # null /\ hovered # selected THEN
        [selectedObject |-> hovered,
         material |-> SetHighlight(IF selected # null THEN ClearHighlight(mat, selected) ELSE mat,
                                   hovered, SelectedIntensity)]
    ELSE IF hovered = null /\ selected # null THEN
        [selectedObject |-> null, material |-> ClearHighlight(mat, selected)]
    ELSE [selectedObject |-> selected, material |-> mat]

\* ------------------------------------------------------------ joystick
\* joystickBase.getBoundingClientRect() / offsetWidth: the page's layout
BaseRect == [left |-> 20, top |-> 500, width |-> 100, height |-> 100]

joystickRadius == BaseRect.width \div 2

Vec2(x, y) == [x |-> x, y |-> y]

\* the joystick's variables as one record
Joystick == [pointerId |-> joystickPointerId, center |-> joystickCenter,
             pos |-> joystickPos, vector |-> joystickVector]

\* setJoystickPosition(x, y)
setJoystickPosition(j, x, y) ==
    [j EXCEPT !.center = Vec2(BaseRect.left + BaseRect.width \div 2,
                              BaseRect.top + BaseRect.height \div 2),
              !.pointerId = null,
              !.pos = Vec2(x, y)]

\* joystickBase 'touchstart' listener
TouchStartHandler(j, changed) ==
    IF j.pointerId # null THEN j
    ELSE setJoystickPosition([j EXCEPT !.pointerId = changed[1].identifier], 0, 0)

\* Math.cos(Math.atan2(dy, dx)) and Math.sin(Math.atan2(dy, dx)), in 1/Scale
CosAtan2(dy, dx) == RoundDiv(dx * Scale * 100, Sqrt((dx * dx + dy * dy) * 10000))
SinAtan2(dy, dx) == RoundDiv(dy * Scale * 100, Sqrt((dx * dx + dy * dy) * 10000))

\* variant: each axis truncated to the radius on its own
PolarClamp_PerAxis(deltaX, deltaY) ==
    LET maxDistance == joystickRadius
        clampedX == IF deltaX > maxDistance THEN maxDistance * Scale
                    ELSE IF deltaX < -maxDistance THEN -maxDistance * Scale ELSE deltaX * Scale
        clampedY == IF deltaY > maxDistance THEN maxDistance * Scale
                    ELSE IF deltaY < -maxDistance THEN -maxDistance * Scale ELSE deltaY * Scale
    IN [pos |-> Vec2(clampedX, clampedY),
        vector |-> Vec2(RoundDiv(clampedX, maxDistance), RoundDiv(clampedY, maxDistance))]

\* the touchmove computation on a raw offset in pixels: the stored offset (in
\* 1/Scale pixel) and the direction vector
PolarClamp(deltaX, deltaY) ==
    LET maxDistance == joystickRadius
        over == deltaX * deltaX + deltaY * deltaY > maxDistance * maxDistance
        clampedX == IF over THEN CosAtan2(deltaY, deltaX) * maxDistance ELSE deltaX * Scale
        clampedY == IF over THEN SinAtan2(deltaY, deltaX) * maxDistance ELSE deltaY * Scale
    IN [pos |-> Vec2(clampedX, clampedY),
        vector |-> Vec2(RoundDiv(clampedX, maxDistance), RoundDiv(clampedY, maxDistance))]

\* the indices of changedTouches whose identifier is id
Matching(changed, id) == {i \in DOMAIN changed : changed[i].identifier = id}

Min(S) == CHOOSE m \in S : \A n \in S : m <= n

\* variant: the move listener without the active-pointer test, following the
\* first changed touch
TouchMoveHandler_AnyTouch(j, changed) ==
    LET touch == changed[1]
        c == PolarClamp(touch.clientX - j.center.x, touch.clientY - j.center.y)
    IN [j EXCEPT !.pos = c.pos, !.vector = c.vector]

\* joystickBase 'touchmove' listener
TouchMoveHandler(j, changed) ==
    IF j.pointerId = null \/ Matching(changed, j.pointerId) = {} THEN j
    ELSE LET touch == changed[Min(Matching(changed, j.pointerId))]
             c == PolarClamp(touch.clientX - j.center.x, touch.clientY - j.center.y)
         IN [j EXCEPT !.pos = c.pos, !.vector = c.vector]

\* variant: the end listener leaves the direction vector as it was
TouchEndHandler_KeepsVector(j, changed) ==
    IF Matching(changed, j.pointerId) = {} THEN j
    ELSE [j EXCEPT !.pointerId = null, !.pos = Vec2(0, 0)]

\* joystickBase 'touchend' listener
TouchEndHandler(j, changed) ==
    IF Matching(changed, j.pointerId) = {} THEN j
    ELSE [j EXCEPT !.pointerId = null, !.pos = Vec2(0, 0), !.vector = Vec2(0, 0)]

\* joystickBase 'touchcancel' listener
TouchCancelHandler(j) ==
    [j EXCEPT !.pointerId = null, !.pos = Vec2(0, 0), !.vector = Vec2(0, 0)]

\* identifiers the browser gives to touches
TouchIds == {0, 1}

\* raw offsets from the centre of the joystick base explored by touch events:
\* on the rim, about twice the radius out at 45 degrees, inside, and outside the
\* rim off the diagonals
TouchOffsets == {<<30, -40>>, <<71, 71>>, <<-20, 10>>, <<-120, 0>>, <<60, 20>>}

TouchAt(id, off) ==
    [identifier |-> id,
     clientX |-> BaseRect.left + BaseRect.width \div 2 + off[1],
     clientY |-> BaseRect.top + BaseRect.height \div 2 + off[2]]

\* the changedTouches lists over the touches in ids: one to MaxChanged touches,
\* no identifier twice
TouchLists(ids) ==
    UNION { { s \in [1..n -> {TouchAt(id, off) : id \in ids, off \in TouchOffsets}] :
                \A a, b \in 1..n : a # b => s[a].identifier # s[b].identifier } :
            n \in 1..MaxChanged }

\* the same lists with every touch at the centre (listeners that read identifiers only)
IdLists(ids) ==
    UNION { { s \in [1..n -> {TouchAt(id, <<0, 0>>) : id \in ids}] :
                \A a, b \in 1..n : a # b => s[a].identifier # s[b].identifier } :
            n \in 1..MaxChanged }

Identifiers(changed) == {changed[i].identifier : i \in DOMAIN changed}

\* ------------------------------------------------------------ movement
\* variant: the forward displacement with the sign of the vertical axis kept
ApplyMovement_VerticalSign(position, direction, vector) ==
    IF vector.x # 0 \/ vector.y # 0 THEN
        LET forward == Normalize(Vec3(direction.x, 0, direction.z))
            right == Normalize(CrossVectors(CameraUp, forward))
            p1 == AddScaledVector(position, forward, RoundDiv(vector.y * MoveSpeed, Scale))
            p2 == AddScaledVector(p1, right, RoundDiv(vector.x * MoveSpeed, Scale))
        IN IF p2.y < FloorY THEN [p2 EXCEPT !.y = FloorY] ELSE p2
    ELSE position

\* variant: the movement without the clamp of the camera's height
ApplyMovement_NoFloor(position, direction, vector) ==
    IF vector.x # 0 \/ vector.y # 0 THEN
        LET forward == Normalize(Vec3(direction.x, 0, direction.z))
            right == Normalize(CrossVectors(CameraUp, forward))
            p1 == AddScaledVector(position, forward, RoundDiv(-vector.y * MoveSpeed, Scale))
        IN AddScaledVector(p1, right, RoundDiv(vector.x * MoveSpeed, Scale))
    ELSE position

\* variant: the height clamp applied in every frame, moving or not
ApplyMovement_AlwaysClamps(position, direction, vector) ==
    LET moved ==
          IF vector.x # 0 \/ vector.y # 0 THEN
              LET forward == Normalize(Vec3(direction.x, 0, direction.z))
                  right == Normalize(CrossVectors(CameraUp, forward))
                  p1 == AddScaledVector(position, forward, RoundDiv(-vector.y * MoveSpeed, Scale))
              IN AddScaledVector(p1, right, RoundDiv(vector.x * MoveSpeed, Scale))
          ELSE position
    IN IF moved.y < FloorY THEN [moved EXCEPT !.y = FloorY] ELSE moved

\* animate(): the joystick movement block
ApplyMovement(position, direction, vector) ==
    IF vector.x # 0 \/ vector.y # 0 THEN
        LET forward == Normalize(Vec3(direction.x, 0, direction.z))
            right == Normalize(CrossVectors(CameraUp, forward))
            p1 == AddScaledVector(position, forward, RoundDiv(-vector.y * MoveSpeed, Scale))
            p2 == AddScaledVector(p1, right, RoundDiv(vector.x * MoveSpeed, Scale))
        IN IF p2.y < FloorY THEN [p2 EXCEPT !.y = FloorY] ELSE p2
    ELSE position

\* camera.position.set(0, 15, 25), looking at the orbit target (the origin)
InitialPose == [position |-> Vec3(0, 15 * Scale, 25 * Scale),
                direction |-> Normalize(Vec3(0, -15 * Scale, -25 * Scale))]

\* controls.update() with the orbit at rest (no drag on the canvas, damping
\* settled): the camera keeps its pose
ControlsUpdate(position, direction) == [position |-> position, direction |-> direction]

\* clock.getDelta(), in milliseconds
FrameDeltas == {16}

\* spinningObjects.forEach(obj => obj.rotation.y += delta * 0.2)
Spin(rot, spinning, delta) ==
    [o \in DOMAIN rot |-> IF o \in spinning THEN rot[o] + RoundDiv(delta * SpinRate, Scale)
                          ELSE rot[o]]

\* ------------------------------------------------------------ textures and spin
\* objects.find(o => o.name === name): the mesh of the first entry with the name
Find(objs, name) ==
    LET found == {i \in DOMAIN objs : objs[i].name = name}
    IN IF found = {} THEN null ELSE objs[Min(found)].obj

\* the values a <select> list is set to when its button is clicked: nothing
\* chosen, or the name of one of the first MaxChosen registry entries
SelectOptions(objs) == {""} \cup {objs[i].name : i \in {k \in DOMAIN objs : k <= MaxChosen}}

\* the texture state as one record
Textures == [loadedTexture |-> loadedTexture, map |-> materialMap]

\* variant: a completed load also replaces the texture of every textured object
OnTextureLoad_Retextures(t, texture) ==
    [loadedTexture |-> texture,
     map |-> [o \in DOMAIN t.map |-> IF t.map[o] # null THEN texture ELSE null]]

\* variant: the callback keeps the texture that was requested later
OnTextureLoad_KeepsNewest(t, texture) ==
    IF t.loadedTexture # null /\ t.loadedTexture > texture THEN t
    ELSE [t EXCEPT !.loadedTexture = texture]

\* textureLoader.load's onLoad callbacks: loadedTexture = texture
OnTextureLoad(t, texture) == [t EXCEPT !.loadedTexture = texture]

\* variant: a failed load forgets the texture loaded before
OnTextureError_Forgets(t) == [t EXCEPT !.loadedTexture = null]

\* textureLoader.load's onError callbacks: an alert and nothing else
OnTextureError(t) == t

LoadedNotice(source) ==
    IF source = "file" THEN "Texture loaded. Select an object and click \"Apply Texture\""
    ELSE "Photo captured and texture loaded. Select an object and click \"Apply Texture\"."

ErrorNotice(source) ==
    IF source = "file" THEN "Error loading texture image."
    ELSE "Failed to load texture from photo."

\* applyTextureBtn 'click' listener
ApplyTextureHandler(t, objs, name) ==
    IF name = "" THEN [textures |-> t, notice |-> "Select an object to apply texture."]
    ELSE IF t.loadedTexture = null THEN [textures |-> t, notice |-> "Load a texture image first."]
    ELSE IF Find(objs, name) = null THEN [textures |-> t, notice |-> ""]
    ELSE [textures |-> [t EXCEPT !.map[Find(objs, name)] = t.loadedTexture], notice |-> ""]

\* toggleSpinBtn 'click' listener
ToggleSpinHandler(spinning, objs, name) ==
    IF name = "" THEN [spinningObjects |-> spinning, notice |-> "Select an object to toggle spin."]
    ELSE IF Find(objs, name) = null THEN [spinningObjects |-> spinning, notice |-> ""]
    ELSE IF Find(objs, name) \in spinning
         THEN [spinningObjects |-> spinning \ {Find(objs, name)}, notice |-> ""]
         ELSE [spinningObjects |-> spinning \cup {Find(objs, name)}, notice |-> ""]

\* the capture-photo invocations that may still call textureLoader.load
CapturesInFlight(caps) ==
    Cardinality({c \in DOMAIN caps : caps[c].pc \in {"getUserMedia", "loadedmetadata"}})

\* ------------------------------------------------------------ initial state
\* what a handler that reads no <select> leaves in objName
Unread == "(unread)"

\* the texture, capture and notice state when the script ends
PanelInit ==
    /\ loadedTexture = null
    /\ materialMap = [o \in 1..NumPrepop |-> null]
    /\ textureLoads = {}
    /\ texturesCreated = 0
    /\ captures = <<>>
    /\ videoSrcObject = null
    /\ videoDisplay = "none"
    /\ onloadedmetadata = null
    /\ metadataPending = FALSE
    /\ notice = ""
    /\ objName = Unread
    /\ applyTextureOptions = prepopulateOptions(NumPrepop).apply
    /\ spinObjectsOptions = prepopulateOptions(NumPrepop).spin

undefined == "undefined"

\* the data-cloud demo is another page: its script is not part of this one
NoDataCloud ==
    /\ statement = "not loaded"
    /\ scene = undefined
    /\ camera = undefined
    /\ renderer = undefined
    /\ controls = undefined
    /\ children = <<>>
    /\ data = <<>>
    /\ overlay = ""
    /\ uncaught = "none"

\* the module imports THREE and OrbitControls: setup runs with both present
ModuleStartup ==
    /\ library = [THREE |-> TRUE, OrbitControls |-> TRUE]
    /\ consoleError = FALSE
    /\ running = TRUE

\* the closure's state when the script ends: everything constructed, and the
\* first animate() (called before the window's listeners are added) has run
Setup ==
    /\ objects = prepopulateObjects(NumPrepop)
    /\ rotationY = [o \in 1..NumPrepop |-> 0]
    /\ spinningObjects = {}
    /\ selectedObject = null
    /\ joystickPointerId = null
    /\ joystickCenter = Vec2(0, 0)
    /\ joystickPos = Vec2(0, 0)
    /\ joystickVector = Vec2(0, 0)
    /\ cameraPosition = InitialPose.position
    /\ cameraDirection = InitialPose.direction
    /\ controlsPosition = InitialPose.position
    /\ touches = {}
    /\ changedTouches = <<>>
    /\ ray \in Rays(prepopulateObjects(NumPrepop))
    /\ intersects = IntersectObjects(prepopulateObjects(NumPrepop), ray)
    /\ LET hov == HoverUpdate(intersects, null, null, [o \in 1..NumPrepop |-> NewMaterial])
       IN /\ hoveredObject = hov.hoveredObject
          /\ material = hov.material
    /\ tapBefore = <<>>
    /\ joystickBefore = <<>>
    /\ PanelInit
    /\ NoDataCloud
    /\ lastEvent = "animate"

Init == Setup /\ ModuleStartup

\* what a handler that is neither a frame nor a touch nor a tap leaves behind
NoFrame == ray' = <<>> /\ intersects' = <<>>
NoTouch == changedTouches' = <<>>
NoTap == tapBefore' = <<>>
NoJoystick == joystickBefore' = <<>>
NoNotice == notice' = "" /\ objName' = Unread

\* ------------------------------------------------------------ actions
\* one frame: controls.update(), movement, spin, ray cast and hover update
animate ==
    \E delta \in FrameDeltas, r \in Rays(objects) :
        LET pose == ControlsUpdate(cameraPosition, cameraDirection)
            hits == IntersectObjects(objects, r)
            hov == HoverUpdate(hits, hoveredObject, selectedObject, material)
        IN /\ controlsPosition' = pose.position
           /\ cameraDirection' = pose.direction
           /\ cameraPosition' = ApplyMovement(pose.position, pose.direction, joystickVector)
           /\ rotationY' = Spin(rotationY, spinningObjects, delta)
           /\ ray' = r
           /\ intersects' = hits
           /\ hoveredObject' = hov.hoveredObject
           /\ material' = hov.material
           /\ lastEvent' = "animate"
           /\ UNCHANGED <<pageVars, dataCloudVars>>
           /\ NoTouch /\ NoTap /\ NoJoystick /\ NoNotice
           /\ UNCHANGED <<textureVars, captureVars>>
           /\ UNCHANGED <<objects, spinningObjects, selectedObject, joystickVars, touches>>

\* a touch ends outside the joystick: only the window listener runs
WindowTouchEnd ==
    /\ LET sel == WindowTouchEndHandler(hoveredObject, selectedObject, material)
       IN /\ selectedObject' = sel.selectedObject
          /\ material' = sel.material
    /\ tapBefore' = [hoveredObject |-> hoveredObject, selectedObject |-> selectedObject]
    /\ lastEvent' = "window_touchend"
    /\ UNCHANGED <<pageVars, dataCloudVars>>
    /\ NoFrame /\ NoTouch /\ NoJoystick /\ NoNotice
    /\ UNCHANGED <<registryVars, hoveredObject, joystickVars, cameraVars, touches,
                   textureVars, captureVars>>

\* a click outside the buttons: only the window listener runs
WindowClick ==
    /\ LET sel == WindowClickHandler(hoveredObject, selectedObject, material)
       IN /\ selectedObject' = sel.selectedObject
          /\ material' = sel.material
    /\ tapBefore' = [hoveredObject |-> hoveredObject, selectedObject |-> selectedObject]
    /\ lastEvent' = "window_click"
    /\ UNCHANGED <<pageVars, dataCloudVars>>
    /\ NoFrame /\ NoTouch /\ NoJoystick /\ NoNotice
    /\ UNCHANGED <<registryVars, hoveredObject, joystickVars, cameraVars, touches,
                   textureVars, captureVars>>

\* a click on the add-primitive button: its listener, then the window's click listener
AddPrimitiveClick ==
    /\ Len(objects) < NumPrepop + MaxAdded
    /\ \E type \in PrimitiveOptions :
        LET mesh == Len(objects) + 1
            registered == [o \in DOMAIN material \cup {mesh} |->
                              IF o = mesh THEN NewMaterial ELSE material[o]]
            sel == WindowClickHandler(hoveredObject, selectedObject, registered)
        IN /\ objects' = addObject(objects, mesh, PrimitiveName(objects, type))
           /\ rotationY' = [o \in DOMAIN rotationY \cup {mesh} |->
                               IF o = mesh THEN 0 ELSE rotationY[o]]
           /\ materialMap' = [o \in DOMAIN materialMap \cup {mesh} |->
                                 IF o = mesh THEN null ELSE materialMap[o]]
           /\ LET lists == addOptions([apply |-> applyTextureOptions, spin |-> spinObjectsOptions],
                                      PrimitiveName(objects, type))
              IN /\ applyTextureOptions' = lists.apply
                 /\ spinObjectsOptions' = lists.spin
           /\ selectedObject' = sel.selectedObject
           /\ material' = sel.material
    /\ tapBefore' = [hoveredObject |-> hoveredObject, selectedObject |-> selectedObject]
    /\ lastEvent' = "add_primitive_click"
    /\ UNCHANGED <<startupVars, dataCloudVars>>
    /\ NoFrame /\ NoTouch /\ NoJoystick /\ NoNotice
    /\ UNCHANGED <<spinningObjects, hoveredObject, joystickVars, cameraVars, touches,
                   loadedTexture, textureLoads, texturesCreated, captureVars>>

\* a joystick listener ends with the joystick's variables at j
SetJoystick(j) ==
    /\ joystickBefore' = Joystick
    /\ joystickPointerId' = j.pointerId
    /\ joystickCenter' = j.center
    /\ joystickPos' = j.pos
    /\ joystickVector' = j.vector

\* touches begin on the joystick base
JoystickTouchStart ==
    /\ \E changed \in IdLists(TouchIds \ touches) :
        /\ SetJoystick(TouchStartHandler(Joystick, changed))
        /\ changedTouches' = changed
        /\ touches' = touches \cup Identifiers(changed)
    /\ lastEvent' = "joystick_touchstart"
    /\ UNCHANGED <<pageVars, dataCloudVars>>
    /\ NoFrame /\ NoTap /\ NoNotice
    /\ UNCHANGED <<registryVars, selectionVars, cameraVars, textureVars, captureVars>>

\* touches that began on the joystick base move
JoystickTouchMove ==
    /\ \E changed \in TouchLists(touches) :
        /\ SetJoystick(TouchMoveHandler(Joystick, changed))
        /\ changedTouches' = changed
    /\ lastEvent' = "joystick_touchmove"
    /\ UNCHANGED <<pageVars, dataCloudVars>>
    /\ NoFrame /\ NoTap /\ NoNotice
    /\ UNCHANGED <<registryVars, selectionVars, cameraVars, touches, textureVars, captureVars>>

\* touches that began on the joystick base end: the base's listener, then (the
\* event bubbles) the window's touchend listener
JoystickTouchEnd ==
    /\ \E changed \in IdLists(touches) :
        /\ SetJoystick(TouchEndHandler(Joystick, changed))
        /\ changedTouches' = changed
        /\ touches' = touches \ Identifiers(changed)
    /\ LET sel == WindowTouchEndHandler(hoveredObject, selectedObject, material)
       IN /\ selectedObject' = sel.selectedObject
          /\ material' = sel.material
    /\ tapBefore' = [hoveredObject |-> hoveredObject, selectedObject |-> selectedObject]
    /\ lastEvent' = "joystick_touchend"
    /\ UNCHANGED <<pageVars, dataCloudVars>>
    /\ NoFrame /\ NoNotice
    /\ UNCHANGED <<registryVars, hoveredObject, cameraVars, textureVars, captureVars>>

\* the browser cancels touches that began on the joystick base
JoystickTouchCancel ==
    /\ \E changed \in IdLists(touches) :
        /\ SetJoystick(TouchCancelHandler(Joystick))
        /\ changedTouches' = changed
        /\ touches' = touches \ Identifiers(changed)
    /\ lastEvent' = "joystick_touchcancel"
    /\ UNCHANGED <<pageVars, dataCloudVars>>
    /\ NoFrame /\ NoTap /\ NoNotice
    /\ UNCHANGED <<registryVars, selectionVars, cameraVars, textureVars, captureVars>>

SetTextures(t) ==
    /\ loadedTexture' = t.loadedTexture
    /\ materialMap' = t.map

\* the window's click listener, run when a click on a button of the panel bubbles
BubbleToWindowClick ==
    /\ LET sel == WindowClickHandler(hoveredObject, selectedObject, material)
       IN /\ selectedObject' = sel.selectedObject
          /\ material' = sel.material
    /\ tapBefore' = [hoveredObject |-> hoveredObject, selectedObject |-> selectedObject]

\* the file input changes: with a file chosen a load starts
TextureInputChange ==
    /\ texturesCreated + CapturesInFlight(captures) < MaxLoads
    /\ \E file \in BOOLEAN :
        IF file
        THEN /\ textureLoads' = textureLoads \cup {[texture |-> texturesCreated + 1, source |-> "file"]}
             /\ texturesCreated' = texturesCreated + 1
        ELSE UNCHANGED <<textureLoads, texturesCreated>>
    /\ lastEvent' = "texture_input_change"
    /\ UNCHANGED <<pageVars, dataCloudVars>>
    /\ NoFrame /\ NoTouch /\ NoTap /\ NoJoystick /\ NoNotice
    /\ UNCHANGED <<registryVars, selectionVars, joystickVars, cameraVars, touches,
                   loadedTexture, materialMap, captureVars>>

\* a texture load completes: its onLoad callback
TextureLoaded ==
    /\ \E l \in textureLoads :
        /\ SetTextures(OnTextureLoad(Textures, l.texture))
        /\ textureLoads' = textureLoads \ {l}
        /\ notice' = LoadedNotice(l.source)
    /\ objName' = Unread
    /\ lastEvent' = "texture_loaded"
    /\ UNCHANGED <<pageVars, dataCloudVars>>
    /\ NoFrame /\ NoTouch /\ NoTap /\ NoJoystick
    /\ UNCHANGED <<registryVars, selectionVars, joystickVars, cameraVars, touches,
                   texturesCreated, captureVars>>

\* a texture load fails: its onError callback
TextureLoadError ==
    /\ \E l \in textureLoads :
        /\ SetTextures(OnTextureError(Textures))
        /\ textureLoads' = textureLoads \ {l}
        /\ notice' = ErrorNotice(l.source)
    /\ objName' = Unread
    /\ lastEvent' = "texture_error"
    /\ UNCHANGED <<pageVars, dataCloudVars>>
    /\ NoFrame /\ NoTouch /\ NoTap /\ NoJoystick
    /\ UNCHANGED <<registryVars, selectionVars, joystickVars, cameraVars, touches,
                   texturesCreated, captureVars>>

\* a click on the apply-texture button: its listener, then the window's click listener
ApplyTextureClick ==
    /\ \E name \in SelectOptions(objects) :
        LET applied == ApplyTextureHandler(Textures, objects, name)
        IN /\ SetTextures(applied.textures)
           /\ notice' = applied.notice
           /\ objName' = name
    /\ BubbleToWindowClick
    /\ lastEvent' = "apply_texture_click"
    /\ UNCHANGED <<pageVars, dataCloudVars>>
    /\ NoFrame /\ NoTouch /\ NoJoystick
    /\ UNCHANGED <<registryVars, hoveredObject, joystickVars, cameraVars, touches,
                   textureLoads, texturesCreated, captureVars>>

\* a click on the toggle-spin button: its listener, then the window's click listener
ToggleSpinClick ==
    /\ \E name \in SelectOptions(objects) :
        LET toggled == ToggleSpinHandler(spinningObjects, objects, name)
        IN /\ spinningObjects' = toggled.spinningObjects
           /\ notice' = toggled.notice
           /\ objName' = name
    /\ BubbleToWindowClick
    /\ lastEvent' = "toggle_spin_click"
    /\ UNCHANGED <<pageVars, dataCloudVars>>
    /\ NoFrame /\ NoTouch /\ NoJoystick
    /\ UNCHANGED <<objects, rotationY, hoveredObject, joystickVars, cameraVars, touches,
                   textureVars, captureVars>>

\* a click on the capture-photo button: the listener up to its first await (the
\* capability test and the getUserMedia call), then the window's click listener
CapturePhotoClick ==
    /\ Len(captures) < MaxCaptures
    /\ texturesCreated + CapturesInFlight(captures) < MaxLoads
    /\ \E supported \in BOOLEAN :
        IF supported
        THEN /\ captures' = Append(captures, [pc |-> "getUserMedia", stream |-> "none"])
             /\ notice' = ""
        ELSE /\ captures' = captures
             /\ notice' = "Camera API not supported."
    /\ objName' = Unread
    /\ BubbleToWindowClick
    /\ lastEvent' = "capture_photo_click"
    /\ UNCHANGED <<pageVars, dataCloudVars>>
    /\ NoFrame /\ NoTouch /\ NoJoystick
    /\ UNCHANGED <<registryVars, hoveredObject, joystickVars, cameraVars, touches,
                   textureVars, videoSrcObject, videoDisplay, onloadedmetadata, metadataPending>>

\* getUserMedia resolves: the listener from the stream to its second await
GetUserMediaResolves ==
    /\ \E c \in DOMAIN captures :
        /\ captures[c].pc = "getUserMedia"
        /\ captures' = [captures EXCEPT ![c] = [pc |-> "loadedmetadata", stream |-> "live"]]
        /\ videoSrcObject' = c
        /\ onloadedmetadata' = c
    /\ videoDisplay' = "block"
    /\ metadataPending' = TRUE
    /\ lastEvent' = "getusermedia_resolved"
    /\ UNCHANGED <<pageVars, dataCloudVars>>
    /\ NoFrame /\ NoTouch /\ NoTap /\ NoJoystick /\ NoNotice
    /\ UNCHANGED <<registryVars, selectionVars, joystickVars, cameraVars, touches, textureVars>>

\* getUserMedia rejects: the listener's catch block
GetUserMediaRejects ==
    /\ \E c \in DOMAIN captures :
        /\ captures[c].pc = "getUserMedia"
        /\ captures' = [captures EXCEPT ![c].pc = "failed"]
    /\ notice' = "Camera access denied or error."
    /\ objName' = Unread
    /\ lastEvent' = "getusermedia_rejected"
    /\ UNCHANGED <<pageVars, dataCloudVars>>
    /\ NoFrame /\ NoTouch /\ NoTap /\ NoJoystick
    /\ UNCHANGED <<registryVars, selectionVars, joystickVars, cameraVars, touches, textureVars,
                   videoSrcObject, videoDisplay, onloadedmetadata, metadataPending>>

\* the video element reports the metadata of its current source: the installed
\* onloadedmetadata callback resolves its promise, and the listener that awaits
\* it runs to its end (snapshot, tracks stopped, video hidden, load started)
VideoLoadedMetadata ==
    /\ metadataPending
    /\ metadataPending' = FALSE
    /\ IF onloadedmetadata # null /\ captures[onloadedmetadata].pc = "loadedmetadata"
       THEN /\ captures' = [captures EXCEPT ![onloadedmetadata] =
                                [pc |-> "done", stream |-> "stopped"]]
            /\ videoDisplay' = "none"
            /\ textureLoads' = textureLoads \cup {[texture |-> texturesCreated + 1, source |-> "photo"]}
            /\ texturesCreated' = texturesCreated + 1
       ELSE UNCHANGED <<captures, videoDisplay, textureLoads, texturesCreated>>
    /\ lastEvent' = "video_loadedmetadata"
    /\ UNCHANGED <<pageVars, dataCloudVars>>
    /\ NoFrame /\ NoTouch /\ NoTap /\ NoJoystick /\ NoNotice
    /\ UNCHANGED <<registryVars, selectionVars, joystickVars, cameraVars, touches,
                   loadedTexture, materialMap, videoSrcObject, onloadedmetadata>>

\* the panel: file loads, photo captures, apply-texture and toggle-spin clicks
TextureNext ==
    \/ TextureInputChange
    \/ TextureLoaded
    \/ TextureLoadError
    \/ ApplyTextureClick
    \/ ToggleSpinClick
    \/ CapturePhotoClick
    \/ GetUserMediaResolves
    \/ GetUserMediaRejects
    \/ VideoLoadedMetadata

TextureSpec == Init /\ [][TextureNext]_vars

\* photo captures alone, with what the browser owes them: a pending getUserMedia
\* request settles, the video element reports the metadata of its current
\* source, a texture load completes or fails
CaptureNext ==
    \/ CapturePhotoClick
    \/ GetUserMediaResolves
    \/ GetUserMediaRejects
    \/ VideoLoadedMetadata
    \/ TextureLoaded
    \/ TextureLoadError

CaptureLiveSpec ==
    /\ Init
    /\ [][CaptureNext]_vars
    /\ WF_vars(GetUserMediaResolves \/ GetUserMediaRejects)
    /\ WF_vars(VideoLoadedMetadata)
    /\ WF_vars(TextureLoaded \/ TextureLoadError)

Next ==
    \/ animate
    \/ WindowTouchEnd
    \/ WindowClick
    \/ AddPrimitiveClick
    \/ JoystickTouchStart
    \/ JoystickTouchMove
    \/ JoystickTouchEnd
    \/ JoystickTouchCancel
    \/ TextureInputChange
    \/ TextureLoaded
    \/ TextureLoadError
    \/ ApplyTextureClick
    \/ ToggleSpinClick
    \/ CapturePhotoClick
    \/ GetUserMediaResolves
    \/ GetUserMediaRejects
    \/ VideoLoadedMetadata

Spec == Init /\ [][Next]_vars

\* the frames and the taps and clicks on the scene, over the prepopulated registry
SelectionNext ==
    \/ animate
    \/ WindowTouchEnd
    \/ WindowClick

SelectionSpec == Init /\ [][SelectionNext]_vars

\* registrations and the lookups by name of the toggle-spin button
RegistryNext ==
    \/ AddPrimitiveClick
    \/ ToggleSpinClick

RegistrySpec == Init /\ [][RegistryNext]_vars

\* the frames, the taps and clicks on the scene and the registrations
SceneNext ==
    \/ animate
    \/ WindowTouchEnd
    \/ WindowClick
    \/ (Len(objects) < NumPrepop + MaxSceneAdded /\ AddPrimitiveClick)

SceneSpec == Init /\ [][SceneNext]_vars

\* ------------------------------------------------------------ script-tag page
\* what the page's script tags provide: both globals, THREE without its
\* OrbitControls member, or neither
Libraries == {[THREE |-> TRUE, OrbitControls |-> TRUE],
              [THREE |-> TRUE, OrbitControls |-> FALSE],
              [THREE |-> FALSE, OrbitControls |-> FALSE]}

\* variant: the guard tests the THREE global alone
StartupGuard_ThreeOnly(lib) ==
    IF ~lib.THREE
    THEN [consoleError |-> TRUE, running |-> FALSE]
    ELSE [consoleError |-> FALSE, running |-> TRUE]

\* typeof THREE === 'undefined' || typeof THREE.OrbitControls === 'undefined':
\* console.error and return, else the setup runs
StartupGuard(lib) ==
    IF ~lib.THREE \/ ~lib.OrbitControls
    THEN [consoleError |-> TRUE, running |-> FALSE]
    ELSE [consoleError |-> FALSE, running |-> TRUE]

\* no scene, registry, list option, listener or frame of the desert page
NoDesertPage ==
    /\ objects = <<>>
    /\ material = <<>>
    /\ rotationY = <<>>
    /\ spinningObjects = {}
    /\ hoveredObject = null
    /\ selectedObject = null
    /\ joystickPointerId = null
    /\ joystickCenter = Vec2(0, 0)
    /\ joystickPos = Vec2(0, 0)
    /\ joystickVector = Vec2(0, 0)
    /\ cameraPosition = Vec3(0, 0, 0)
    /\ cameraDirection = Vec3(0, 0, 0)
    /\ controlsPosition = Vec3(0, 0, 0)
    /\ touches = {}
    /\ changedTouches = <<>>
    /\ ray = <<>>
    /\ intersects = <<>>
    /\ tapBefore = <<>>
    /\ joystickBefore = <<>>
    /\ loadedTexture = null
    /\ materialMap = <<>>
    /\ textureLoads = {}
    /\ texturesCreated = 0
    /\ captures = <<>>
    /\ videoSrcObject = null
    /\ videoDisplay = "none"
    /\ onloadedmetadata = null
    /\ metadataPending = FALSE
    /\ notice = ""
    /\ objName = Unread
    /\ applyTextureOptions = <<>>
    /\ spinObjectsOptions = <<>>

\* the script returned before its first statement of setup
NothingCreated ==
    /\ NoDesertPage
    /\ NoDataCloud
    /\ lastEvent = "aborted"

\* the script-tag page when its script ends
ScriptTagInit ==
    \E lib \in Libraries :
        /\ library = lib
        /\ consoleError = StartupGuard(lib).consoleError
        /\ running = StartupGuard(lib).running
        /\ IF StartupGuard(lib).running THEN Setup ELSE NothingCreated

\* frames and listeners exist only when the setup ran
ScriptTagNext == running /\ SelectionNext

ScriptTagSpec == ScriptTagInit /\ [][ScriptTagNext]_vars

\* the touches on the joystick base
JoystickNext ==
    \/ JoystickTouchStart
    \/ JoystickTouchMove
    \/ JoystickTouchEnd
    \/ JoystickTouchCancel

JoystickSpec == Init /\ [][JoystickNext]_vars

\* ------------------------------------------------------------ movement inputs
\* raw joystick offsets whose stored vectors the movement block is run on
MoveOffsets == {<<30, -40>>, <<71, 71>>, <<-20, 10>>, <<0, -50>>, <<-120, 0>>,
                <<25, 0>>, <<0, 0>>}

\* camera world directions (unit vectors) with a horizontal component
CameraDirections ==
    {InitialPose.direction,
     Vec3(0, 0, -Scale), Vec3(Scale, 0, 0), Vec3(0, 0, Scale), Vec3(-Scale, 0, 0),
     Vec3(600, 0, -800), Vec3(-800, 0, -600), Vec3(0, -600, -800), Vec3(480, -600, 640)}

\* camera positions: high above the ground, below the floor height, on it
CameraPositions ==
    {InitialPose.position, Vec3(6 * Scale, 800, -8 * Scale), Vec3(-3 * Scale, FloorY, 2 * Scale),
     Vec3(0, 1250, 0)}

\* a frame about to run with a stored joystick vector and a camera pose
MoveInit ==
    /\ objects = prepopulateObjects(NumPrepop)
    /\ material = [o \in 1..NumPrepop |-> NewMaterial]
    /\ rotationY = [o \in 1..NumPrepop |-> 0]
    /\ spinningObjects = {}
    /\ hoveredObject = null
    /\ selectedObject = null
    /\ joystickPointerId = null
    /\ joystickCenter = Vec2(BaseRect.left + BaseRect.width \div 2,
                             BaseRect.top + BaseRect.height \div 2)
    /\ \E off \in MoveOffsets :
        /\ joystickPos = PolarClamp(off[1], off[2]).pos
        /\ joystickVector = PolarClamp(off[1], off[2]).vector
    /\ cameraPosition \in CameraPositions
    /\ cameraDirection \in CameraDirections
    /\ controlsPosition = cameraPosition
    /\ touches = {}
    /\ changedTouches = <<>>
    /\ ray = <<>>
    /\ intersects = <<>>
    /\ tapBefore = <<>>
    /\ joystickBefore = <<>>
    /\ PanelInit
    /\ NoDataCloud
    /\ ModuleStartup
    /\ lastEvent = "input"

\* the frame run once on each input
MoveNext == lastEvent = "input" /\ animate

MoveSpec == MoveInit /\ [][MoveNext]_vars

\* ------------------------------------------------------------ listener inputs
\* joystick states the base's listeners are run on: idle, and tracking one of the
\* touches that are down with the stick at an explored offset
JoystickStates(down) ==
    LET centre == Vec2(BaseRect.left + BaseRect.width \div 2,
                       BaseRect.top + BaseRect.height \div 2)
    IN {[pointerId |-> null, center |-> centre, pos |-> Vec2(0, 0), vector |-> Vec2(0, 0)]}
       \cup {[pointerId |-> id, center |-> centre,
               pos |-> PolarClamp(off[1], off[2]).pos,
               vector |-> PolarClamp(off[1], off[2]).vector] :
                 id \in down, off \in TouchOffsets \cup {<<0, 0>>}}

\* a joystick listener about to run on a joystick state and the touches that are down
ListenerInit ==
    /\ objects = prepopulateObjects(NumPrepop)
    /\ material = [o \in 1..NumPrepop |-> NewMaterial]
    /\ rotationY = [o \in 1..NumPrepop |-> 0]
    /\ spinningObjects = {}
    /\ hoveredObject = null
    /\ selectedObject = null
    /\ touches \in SUBSET TouchIds
    /\ \E j \in JoystickStates(touches) :
        /\ joystickPointerId = j.pointerId
        /\ joystickCenter = j.center
        /\ joystickPos = j.pos
        /\ joystickVector = j.vector
    /\ cameraPosition = InitialPose.position
    /\ cameraDirection = InitialPose.direction
    /\ controlsPosition = InitialPose.position
    /\ changedTouches = <<>>
    /\ ray = <<>>
    /\ intersects = <<>>
    /\ tapBefore = <<>>
    /\ joystickBefore = <<>>
    /\ PanelInit
    /\ NoDataCloud
    /\ ModuleStartup
    /\ lastEvent = "input"

\* one listener run once on each input
ListenerNext == lastEvent = "input" /\ JoystickNext

ListenerSpec == ListenerInit /\ [][ListenerNext]_vars

\* ------------------------------------------------------------ data-cloud demo
\* The script's top-level statements in the order of the file.  Function
\* declarations are hoisted and run only where they are called; `let scene,
\* camera, renderer, controls` leaves all four undefined.  The points' torus
\* coordinates and colours are not represented: a point is its random `value`.
Script == << "colors",                         \* new THREE.Color(..) x 3, radius, tube
             "generate",                       \* for (i < DATA_POINTS_COUNT) data.push(..)
             "dataPoints",                     \* geometry, material, new THREE.Points
             "scene.add(dataPoints)",
             "backgroundSphere",               \* geometry, material, new THREE.Mesh
             "scene.add(backgroundSphere)",
             "scene.add(ambientLight)",
             "scene.add(pointLight)",
             "scene.add(pointLight2)",
             "addEventListener(resize)",
             "dataPoints.rotation",
             "init()",
             "setupControls()",
             "animate()" >>

\* the statement after st, "done" after the last
Following(st) ==
    LET i == CHOOSE k \in DOMAIN Script : Script[k] = st
    IN IF i < Len(Script) THEN Script[i + 1] ELSE "done"

\* Math.random() for a point's value
RandomValues == {0, 500, 999}

\* the script's variables as one record
DataCloud ==
    [scene |-> scene, camera |-> camera, renderer |-> renderer, controls |-> controls,
     children |-> children, overlay |-> overlay, uncaught |-> uncaught,
     consoleError |-> consoleError]

\* an expression that needs the THREE global
NeedsTHREE(d, lib) ==
    IF lib.THREE THEN d ELSE [d EXCEPT !.uncaught = "ReferenceError"]

\* scene.add(object): a property read on undefined throws a TypeError
SceneAdd(d, object) ==
    IF d.scene = undefined THEN [d EXCEPT !.uncaught = "TypeError"]
    ELSE [d EXCEPT !.children = Append(@, object)]

\* init(): scene, camera and renderer assigned in that order inside a try; an
\* exception (no THREE, no WebGL context) is caught, shown and logged
init(d, lib, webgl) ==
    IF ~lib.THREE
    THEN [d EXCEPT !.overlay = "ERROR", !.consoleError = TRUE]
    ELSE IF ~webgl
    THEN [d EXCEPT !.scene = "Scene", !.camera = "PerspectiveCamera",
                   !.overlay = "ERROR", !.consoleError = TRUE]
    ELSE [d EXCEPT !.scene = "Scene", !.camera = "PerspectiveCamera",
                   !.renderer = "WebGLRenderer", !.overlay = "Initialized"]

\* setupControls(): new THREE.OrbitControls(camera, renderer.domElement)
setupControls(d, lib) ==
    IF ~lib.THREE THEN [d EXCEPT !.uncaught = "ReferenceError"]
    ELSE IF ~lib.OrbitControls THEN [d EXCEPT !.overlay = "Controls FAIL"]
    ELSE IF d.renderer = undefined THEN [d EXCEPT !.uncaught = "TypeError"]
    ELSE [d EXCEPT !.controls = "OrbitControls", !.overlay = "Controls Active"]

\* animate(), the first frame: controls.update() then renderer.render(scene, camera)
FirstFrame(d) ==
    IF d.controls = undefined \/ d.renderer = undefined
    THEN [d EXCEPT !.uncaught = "TypeError"]
    ELSE d

\* the effect of one top-level statement other than the generation loop
Execute(st, d, lib, webgl) ==
    CASE st \in {"colors", "dataPoints", "backgroundSphere"} -> NeedsTHREE(d, lib)
      [] st = "scene.add(dataPoints)" -> SceneAdd(d, "dataPoints")
      [] st = "scene.add(backgroundSphere)" -> SceneAdd(d, "backgroundSphere")
      [] st = "scene.add(ambientLight)" -> SceneAdd(NeedsTHREE(d, lib), "ambientLight")
      [] st = "scene.add(pointLight)" -> SceneAdd(NeedsTHREE(d, lib), "pointLight")
      [] st = "scene.add(pointLight2)" -> SceneAdd(NeedsTHREE(d, lib), "pointLight2")
      [] st = "init()" -> init(d, lib, webgl)
      [] st = "setupControls()" -> setupControls(d, lib)
      [] st = "animate()" -> FirstFrame(d)
      [] OTHER -> d

\* the page's state when its script starts
DataCloudInit ==
    /\ NoDesertPage
    /\ library \in Libraries
    /\ consoleError = FALSE
    /\ running = FALSE
    /\ statement = Script[1]
    /\ scene = undefined
    /\ camera = undefined
    /\ renderer = undefined
    /\ controls = undefined
    /\ children = <<>>
    /\ data = <<>>
    /\ overlay = ""
    /\ uncaught = "none"
    /\ lastEvent = "script"

\* one pass of the generation loop's body
GeneratePoint ==
    /\ statement = "generate"
    /\ uncaught = "none"
    /\ Len(data) < DATA_POINTS_COUNT
    /\ \E value \in RandomValues : data' = Append(data, value)
    /\ statement' = IF Len(data) + 1 < DATA_POINTS_COUNT THEN statement ELSE Following(statement)
    /\ UNCHANGED <<scene, camera, renderer, controls, children, overlay, uncaught>>
    /\ UNCHANGED <<registryVars, selectionVars, joystickVars, cameraVars, touches,
                   changedTouches, ray, intersects, tapBefore, joystickBefore,
                   textureVars, captureVars, notice, objName, pageVars, lastEvent>>

\* the next top-level statement runs; an uncaught error ends the script
RunStatement ==
    /\ statement \in {Script[k] : k \in DOMAIN Script} \ {"generate"}
    /\ uncaught = "none"
    /\ \E webgl \in BOOLEAN :
        LET d == Execute(statement, DataCloud, library, webgl)
        IN /\ scene' = d.scene
           /\ camera' = d.camera
           /\ renderer' = d.renderer
           /\ controls' = d.controls
           /\ children' = d.children
           /\ overlay' = d.overlay
           /\ uncaught' = d.uncaught
           /\ consoleError' = d.consoleError
           /\ statement' = IF d.uncaught # "none" THEN "terminated" ELSE Following(statement)
    /\ UNCHANGED <<data, library, running, applyTextureOptions, spinObjectsOptions>>
    /\ UNCHANGED <<registryVars, selectionVars, joystickVars, cameraVars, touches,
                   changedTouches, ray, intersects, tapBefore, joystickBefore,
                   textureVars, captureVars, notice, objName, lastEvent>>

DataCloudNext ==
    \/ GeneratePoint
    \/ RunStatement

DataCloudSpec == DataCloudInit /\ [][DataCloudNext]_vars

\* ------------------------------------------------------------ properties
SelectedTint == [emissive |-> "turquoise", emissiveIntensity |-> SelectedIntensity]
HoverTint == [emissive |-> "turquoise", emissiveIntensity |-> HoverIntensity]
NoTint == [emissive |-> "black", emissiveIntensity |-> 0]

\* the handlers that end in the window's tap/click selection code
TapEvents == {"window_touchend", "window_click", "add_primitive_click", "joystick_touchend",
              "apply_texture_click", "toggle_spin_click", "capture_photo_click"}

BaseCentre == Vec2(BaseRect.left + BaseRect.width \div 2, BaseRect.top + BaseRect.height \div 2)

\* C1: an object that is at once hovered and selected carries the selected tint
\* (turquoise at intensity 1), never the hover intensity 0.6.
C1_HoveredSelectedShowsSelected ==
    (hoveredObject # null /\ hoveredObject = selectedObject)
        => /\ material[hoveredObject] = SelectedTint
           /\ material[hoveredObject].emissiveIntensity # HoverIntensity

\* a frame has put the ray back on the selected object after hovering another one
C1_Witness ==
    /\ lastEvent = "animate"
    /\ hoveredObject # null
    /\ hoveredObject = selectedObject
    /\ \E o \in DOMAIN material : o # hoveredObject /\ material[o] = NoTint

\* C2: a touchstart on the joystick base while no pointer is active ends with the
\* touch's identifier as the active pointer, the origin at the centre of the base
\* and the offset (0,0).
C2_TouchStartRecordsPointer ==
    [][(lastEvent' = "joystick_touchstart" /\ joystickPointerId = null)
         => /\ joystickPointerId' = changedTouches'[1].identifier
            /\ joystickCenter' = BaseCentre
            /\ joystickPos' = Vec2(0, 0)]_vars

\* C3: a touchstart of one touch while no touch is down, followed by a touchmove of
\* that touch, leaves joystickVector at the polar-clamped offset divided by the
\* radius (about (0.707, 0.707) for an offset of twice the radius at 45 degrees).
C3_MoveAfterStartStoresVector ==
    [][(/\ lastEvent = "joystick_touchstart"
        /\ Len(changedTouches) = 1
        /\ touches = {changedTouches[1].identifier}
        /\ lastEvent' = "joystick_touchmove"
        /\ Len(changedTouches') = 1
        /\ changedTouches'[1].identifier = changedTouches[1].identifier)
         => LET touch == changedTouches'[1]
                expected == PolarClamp(touch.clientX - BaseCentre.x,
                                       touch.clientY - BaseCentre.y).vector
            IN /\ joystickVector' = expected
               /\ (touch = TouchAt(touch.identifier, <<71, 71>>)
                     => joystickVector' = Vec2(707, 707))]_vars

\* the horizontal forward direction of the camera, and this frame's displacement
HorizontalForward == Normalize(Vec3(cameraDirection.x, 0, cameraDirection.z))
Displacement == Vec3(cameraPosition.x - controlsPosition.x, 0,
                      cameraPosition.z - controlsPosition.z)

\* C4: in a frame's movement step a positive horizontal joystick component moves
\* the camera toward its right-hand side: the displacement has a positive
\* component along forward x up.
C4_PositiveXMovesRight ==
    (lastEvent = "animate" /\ joystickVector.x > 0)
        => Dot(Displacement, CrossVectors(HorizontalForward, CameraUp)) > 0

\* C5: in a frame's movement step a negative vertical joystick component moves the
\* camera along its horizontal forward direction, a positive one against it.
C5_NegativeYMovesForward ==
    lastEvent = "animate"
        => /\ joystickVector.y < 0 => Dot(Displacement, HorizontalForward) > 0
           /\ joystickVector.y > 0 => Dot(Displacement, HorizontalForward) < 0

\* a frame has moved the camera with the stick pushed up and to the side
C5_Witness ==
    /\ lastEvent = "animate"
    /\ joystickVector.y < 0
    /\ joystickVector.x # 0
    /\ cameraPosition # controlsPosition
    /\ Dot(Displacement, HorizontalForward) > 0

\* C6: with A selected and the hover moved by a frame to another object B, a
\* tap/click leaves selectedObject = B, B with the selected tint and A cleared.
C6_SelectAnotherMovesHighlight ==
    (/\ lastEvent \in TapEvents
     /\ tapBefore.selectedObject # null
     /\ tapBefore.hoveredObject # null
     /\ tapBefore.hoveredObject # tapBefore.selectedObject)
        => /\ selectedObject = tapBefore.hoveredObject
           /\ material[tapBefore.hoveredObject] = SelectedTint
           /\ material[tapBefore.selectedObject].emissive = "black"
           /\ material[tapBefore.selectedObject].emissiveIntensity = 0

\* a click has moved the selection from object 2 to the hovered object 3
C6_Witness ==
    /\ lastEvent = "window_click"
    /\ tapBefore = [hoveredObject |-> 3, selectedObject |-> 2]
    /\ selectedObject = 3
    /\ hoveredObject = 3

\* C7: a tap/click while nothing is hovered and some object is selected clears
\* that object's highlight (black, intensity 0) and leaves nothing selected and
\* nothing hovered.
C7_TapOnNothingDeselects ==
    (/\ lastEvent \in TapEvents
     /\ tapBefore.hoveredObject = null
     /\ tapBefore.selectedObject # null)
        => /\ selectedObject = null
           /\ hoveredObject = null
           /\ material[tapBefore.selectedObject] = NoTint

\* a touch has ended with nothing hovered and object 2 selected
C7_Witness ==
    /\ lastEvent = "window_touchend"
    /\ tapBefore = [hoveredObject |-> null, selectedObject |-> 2]
    /\ selectedObject = null

\* C8: no step takes an object from the selected tint to the hover tint: a frame
\* leaves a selected tint as it is, and a tap/click either leaves it or (the
\* object no longer selected) clears it.
C8_SelectedNeverBecomesHovered ==
    [][\A o \in DOMAIN material :
         material[o] = SelectedTint
           => \/ material'[o] = SelectedTint
              \/ /\ lastEvent' \in TapEvents
                 /\ selectedObject = o
                 /\ selectedObject' # o
                 /\ material'[o] = NoTint]_vars

\* a frame's ray has hit the selected object in front of another one
C8_Witness ==
    /\ lastEvent = "animate"
    /\ selectedObject # null
    /\ Len(intersects) = 2
    /\ intersects[1].object = selectedObject
    /\ material[selectedObject] = SelectedTint

\* C9: on a frame whose nearest hit differs from hoveredObject, the previous
\* hovered object is cleared unless it is the selected one, the new hit gets the
\* hover tint unless it is the selected one, and nothing else changes.
C9_HoverMoves ==
    [][(/\ lastEvent' = "animate"
        /\ Len(intersects') > 0
        /\ intersects'[1].object # hoveredObject)
         => LET new == intersects'[1].object
                old == hoveredObject
            IN /\ hoveredObject' = new
               /\ \A o \in DOMAIN material :
                    material'[o] =
                      IF o = new /\ new # selectedObject THEN HoverTint
                      ELSE IF o = old /\ old # selectedObject THEN NoTint
                      ELSE material[o]]_vars

\* object 2 selected, the ray moved from it to object 3, object 1 never lit
C9_Witness ==
    /\ lastEvent = "animate"
    /\ selectedObject = 2
    /\ hoveredObject = 3
    /\ material[3] = HoverTint
    /\ material[2] = SelectedTint
    /\ material[1].emissive = "black"

\* the registered meshes this frame's ray pierces
RegisteredHits == {m \in Meshes(objects) : ray[m] > 0}

\* C10: after a frame, hoveredObject is the registered object the centre ray hits
\* nearest (never the ground), or none when it hits no registered object.
C10_HoveredIsNearestHit ==
    lastEvent = "animate"
        => /\ RegisteredHits = {} => hoveredObject = null
           /\ RegisteredHits # {}
                => /\ hoveredObject \in RegisteredHits
                   /\ \A m \in RegisteredHits : ray[hoveredObject] <= ray[m]

\* the ray hit object 3 in front of the selected object 1
C10_Witness ==
    /\ lastEvent = "animate"
    /\ ray[1] = 2
    /\ ray[3] = 1
    /\ hoveredObject = 3
    /\ selectedObject = 1

\* the fixed-point image of |v| <= 1: one unit of rounding on each component
MagnitudeAtMostOne(v) ==
    /\ v.x \in -Scale..Scale
    /\ v.y \in -Scale..Scale
    /\ v.x * v.x + v.y * v.y <= (Scale + 2) * (Scale + 2)

\* C11: in every state reached by touchstart/touchmove/touchend/touchcancel events
\* on the joystick base, joystickVector has magnitude at most 1 and is (0,0)
\* whenever joystickPointerId is null.
C11_VectorBoundedAndZeroWhenIdle ==
    /\ MagnitudeAtMostOne(joystickVector)
    /\ joystickPointerId = null => joystickVector = Vec2(0, 0)

\* a touch that is down on the base has moved outside the rim
C11_Witness ==
    /\ lastEvent = "joystick_touchmove"
    /\ \E i \in DOMAIN changedTouches :
         /\ changedTouches[i].identifier \in touches
         /\ changedTouches[i] = TouchAt(changedTouches[i].identifier, <<71, 71>>)
    /\ joystickPointerId = null
    /\ joystickVector = Vec2(0, 0)

JoystickEvents == {"joystick_touchstart", "joystick_touchmove", "joystick_touchend",
                   "joystick_touchcancel"}

\* the listener that ran last found a changed touch with the active pointer's id
MatchedActive ==
    /\ lastEvent \in JoystickEvents
    /\ joystickBefore.pointerId # null
    /\ Matching(changedTouches, joystickBefore.pointerId) # {}

JoystickReset ==
    /\ joystickPointerId = null
    /\ joystickPos = Vec2(0, 0)
    /\ joystickVector = Vec2(0, 0)

\* C12: a touchend with a changed touch of the active pointer's id, and every
\* touchcancel, leave no active pointer and joystickPos and joystickVector at
\* (0,0); a touchend with no such changed touch leaves the joystick as it was.
C12_EndAndCancelReset ==
    /\ (lastEvent = "joystick_touchend" /\ MatchedActive) => JoystickReset
    /\ lastEvent = "joystick_touchcancel" => JoystickReset
    /\ (lastEvent = "joystick_touchend" /\ ~MatchedActive) => Joystick = joystickBefore

\* the tracked touch 0 has ended with the stick pushed out at 45 degrees
C12_Witness ==
    /\ lastEvent = "joystick_touchend"
    /\ joystickBefore.pointerId = 0
    /\ joystickBefore.vector = Vec2(707, 707)
    /\ 0 \in Identifiers(changedTouches)
    /\ JoystickReset

\* C13: a touchstart on the joystick base while a touch that started there is still
\* down is ignored: the joystick's variables are unchanged, and the pointer that
\* is tracked is one of the touches that are down.
C13_SecondTouchStartIgnored ==
    [][(lastEvent' = "joystick_touchstart" /\ touches # {})
         => /\ UNCHANGED joystickVars
            /\ joystickPointerId' \in touches]_vars

\* C14: the touchmove computation stores a raw offset longer than the radius as
\* an offset of length the radius (to the rounding of the fixed-point sine and
\* cosine) with the raw offset's angle, and a raw offset no longer than the
\* radius unchanged; joystickVector is the stored offset over the radius.
C14_PolarClamp ==
    (lastEvent = "joystick_touchmove" /\ MatchedActive)
        => LET touch == changedTouches[Min(Matching(changedTouches, joystickBefore.pointerId))]
               deltaX == touch.clientX - joystickBefore.center.x
               deltaY == touch.clientY - joystickBefore.center.y
               length == Sqrt((joystickPos.x \div 10) * (joystickPos.x \div 10)
                              + (joystickPos.y \div 10) * (joystickPos.y \div 10))
               cross == deltaX * joystickPos.y - deltaY * joystickPos.x
               tolerance == 30 * ((IF deltaX < 0 THEN -deltaX ELSE deltaX)
                                  + (IF deltaY < 0 THEN -deltaY ELSE deltaY))
           IN /\ IF deltaX * deltaX + deltaY * deltaY > joystickRadius * joystickRadius
                 THEN /\ length \in (joystickRadius * 100 - 3)..(joystickRadius * 100 + 3)
                      /\ cross \in -tolerance..tolerance
                      /\ deltaX * joystickPos.x + deltaY * joystickPos.y > 0
                 ELSE joystickPos = Vec2(deltaX * Scale, deltaY * Scale)
              /\ joystickVector = Vec2(RoundDiv(joystickPos.x, joystickRadius),
                                       RoundDiv(joystickPos.y, joystickRadius))
              /\ MagnitudeAtMostOne(joystickVector)

\* the tracked touch 1 has moved to (60, 20), outside the rim: the stored offset
\* is neither the raw offset nor its per-axis truncation (50, 20)
C14_Witness ==
    /\ lastEvent = "joystick_touchmove"
    /\ joystickBefore.pointerId = 1
    /\ \E i \in DOMAIN changedTouches : changedTouches[i] = TouchAt(1, <<60, 20>>)
    /\ joystickPointerId = 1
    /\ joystickPos.x < 50 * Scale
    /\ joystickPos.y < 20 * Scale
    /\ joystickPos.y > 0

\* C15: after every frame whose movement step ran (joystickVector not (0,0)) the
\* camera's height is at least the floor 1.2, whatever the pose was before.
C15_FloorAfterMovement ==
    (lastEvent = "animate" /\ joystickVector # Vec2(0, 0)) => cameraPosition.y >= FloorY

\* a frame has moved a camera that was below the floor and lifted it onto it
C15_Witness ==
    /\ lastEvent = "animate"
    /\ joystickVector # Vec2(0, 0)
    /\ controlsPosition.y < FloorY
    /\ cameraPosition.y = FloorY
    /\ cameraPosition.x # controlsPosition.x

\* C16: a texture load that fails (from the file input or from a captured photo)
\* leaves loadedTexture, every material map and every material as they were and
\* raises only its notice; the texture loaded before is the one a later
\* apply-texture click gives to the chosen object.
C16_FailedLoadKeepsTexture ==
    [][/\ lastEvent' = "texture_error"
          => /\ loadedTexture' = loadedTexture
             /\ materialMap' = materialMap
             /\ material' = material
             /\ notice' \in {ErrorNotice("file"), ErrorNotice("photo")}
       /\ (/\ lastEvent' = "apply_texture_click"
           /\ loadedTexture # null
           /\ Find(objects, objName') # null)
          => materialMap'[Find(objects, objName')] = loadedTexture]_vars

\* the load of a captured photo has failed after a file's texture was loaded
C16_Witness ==
    /\ lastEvent = "texture_error"
    /\ notice = ErrorNotice("photo")
    /\ loadedTexture = 1
    /\ textureLoads = {}

\* C17: the completion of a texture load changes loadedTexture and nothing else
\* of the scene; an object's material map changes only in an apply-texture click
\* with that object's name chosen, so objects textured earlier keep their texture
\* when a later load completes.
C17_LoadChangesOnlyLoadedTexture ==
    [][/\ lastEvent' = "texture_loaded"
          => /\ loadedTexture' # null
             /\ UNCHANGED <<materialMap, registryVars, selectionVars, joystickVars,
                            cameraVars, captureVars>>
       /\ \A o \in DOMAIN materialMap :
            materialMap'[o] # materialMap[o]
              => /\ lastEvent' = "apply_texture_click"
                 /\ Find(objects, objName') = o]_vars

\* a second load has completed while object 1 carries the first load's texture
C17_Witness ==
    /\ lastEvent = "texture_loaded"
    /\ loadedTexture = 2
    /\ materialMap[1] = 1

\* C18: a click on apply-texture or toggle-spin with no name chosen in its list
\* raises a notice and changes no material map, spinning-set membership,
\* registry entry, hover or selection state.
C18_NoNameChosenIsNoOp ==
    [][(lastEvent' \in {"apply_texture_click", "toggle_spin_click"} /\ objName' = "")
         => /\ notice' # ""
            /\ UNCHANGED <<materialMap, spinningObjects, objects,
                           hoveredObject, selectedObject>>]_vars

\* C19: a capture-photo click without the media API, and a rejected stream
\* request, raise a notice and leave loadedTexture, the video element's source
\* and visibility and every object's material as they were.
C19_CameraUnavailableChangesNothing ==
    [][(\/ lastEvent' = "capture_photo_click" /\ notice' # ""
        \/ lastEvent' = "getusermedia_rejected")
         => /\ notice' # ""
            /\ UNCHANGED <<loadedTexture, videoSrcObject, videoDisplay,
                           materialMap, material>>]_vars

\* the stream of the c-th capture: "none" until acquired, then "live", then "stopped"
StreamOf(c) == IF c \in DOMAIN captures THEN captures[c].stream ELSE "none"

\* C20: every stream a capture acquires is eventually stopped, given that pending
\* stream requests settle and the video element reports the metadata of its
\* current source.
C20_StreamsEventuallyStopped ==
    \A c \in 1..MaxCaptures :
        (StreamOf(c) = "live") ~> (StreamOf(c) = "stopped")

\* the names of the registry's entries, in registration order
RegistryNames == [i \in DOMAIN objects |-> objects[i].name]

IsPrefix(a, b) == Len(a) <= Len(b) /\ \A i \in DOMAIN a : a[i] = b[i]

\* C21: the two lists have gained one option per registered object, in
\* registration order and named as in the registry, before and after every
\* step; no step removes or reorders a registry entry or a list option.
C21_ListsFollowRegistry ==
    [][/\ applyTextureOptions = RegistryNames
       /\ spinObjectsOptions = RegistryNames
       /\ applyTextureOptions' = [i \in DOMAIN objects' |-> objects'[i].name]
       /\ spinObjectsOptions' = [i \in DOMAIN objects' |-> objects'[i].name]
       /\ IsPrefix(objects, objects')
       /\ IsPrefix(applyTextureOptions, applyTextureOptions')
       /\ IsPrefix(spinObjectsOptions, spinObjectsOptions')]_vars

\* two add-primitive clicks have been registered after the prepopulated objects
C21_Witness ==
    /\ lastEvent = "add_primitive_click"
    /\ Len(objects) = NumPrepop + 2
    /\ spinObjectsOptions[NumPrepop + 1] = "obj6_box"
    /\ spinObjectsOptions[NumPrepop + 2] = "obj7_plane"

\* C22: the names of the registered objects are pairwise distinct, and the lookup
\* by name finds the object that was registered under the name.
C22_NamesDistinct ==
    /\ \A i, j \in DOMAIN objects : i # j => objects[i].name # objects[j].name
    /\ \A i \in DOMAIN objects : Find(objects, objects[i].name) = objects[i].obj

\* two primitives of the same type have been added
C22_Witness ==
    /\ Len(objects) = NumPrepop + 2
    /\ objects[NumPrepop + 1].name = "obj6_box"
    /\ objects[NumPrepop + 2].name = "obj7_box"

\* C23: on the script-tag page, when the THREE global or its OrbitControls member
\* is absent, startup logs an error and creates nothing: no registry entry, no
\* material, no list option, and no listener or frame ever runs.
C23_MissingLibraryAborts ==
    (~library.THREE \/ ~library.OrbitControls)
        => /\ consoleError
           /\ ~running
           /\ lastEvent = "aborted"
           /\ objects = <<>>
           /\ material = <<>>
           /\ applyTextureOptions = <<>>
           /\ spinObjectsOptions = <<>>

\* THREE is loaded without OrbitControls and the script has returned
C23_Witness ==
    /\ library = [THREE |-> TRUE, OrbitControls |-> FALSE]
    /\ consoleError
    /\ ~running

\* C24: the tap/click selection code changes nothing when the hovered object is
\* already the selection, and run a second time with no frame in between (the
\* touchend and the click of one tap) it changes nothing more.
C24_SecondTapChangesNothing ==
    [][lastEvent' \in TapEvents
         => /\ hoveredObject = selectedObject => UNCHANGED selectionVars
            /\ lastEvent \in TapEvents => UNCHANGED selectionVars]_vars

\* the click of a tap whose touchend has just selected the hovered object 2
C24_Witness ==
    /\ lastEvent = "window_click"
    /\ tapBefore = [hoveredObject |-> 2, selectedObject |-> 2]
    /\ selectedObject = 2
    /\ material[2] = SelectedTint

\* C25: the hover update is idempotent: after a frame, running it again on the
\* same intersection list leaves hoveredObject and every material as they are
\* (selectedObject is not written by it).
C25_HoverUpdateIdempotent ==
    lastEvent = "animate"
        => HoverUpdate(intersects, hoveredObject, selectedObject, material)
             = [hoveredObject |-> hoveredObject, material |-> material]

\* a frame has moved the hover tint to object 4 while object 2 is selected
C25_Witness ==
    /\ lastEvent = "animate"
    /\ Len(intersects) > 0
    /\ hoveredObject = 4
    /\ selectedObject = 2
    /\ material[4] = HoverTint
    /\ \E o \in DOMAIN material : material[o] = NoTint

\* C27: a frame with joystickVector at (0,0) leaves the camera exactly where the
\* controls update left it: no displacement and no height clamp.
C27_IdleFrameSkipsMovement ==
    (lastEvent = "animate" /\ joystickVector = Vec2(0, 0))
        => cameraPosition = controlsPosition

\* an idle frame has left a camera that is below the floor where it was
C27_Witness ==
    /\ lastEvent = "animate"
    /\ joystickVector = Vec2(0, 0)
    /\ cameraPosition.y < FloorY
    /\ cameraPosition = controlsPosition

\* a material that shows no highlight: its emissive colour is black (0x000000)
Unlit(m) == m.emissive = "black"

\* C28: in every state reached by frames, taps, clicks and registrations, an
\* object shows the selected highlight exactly when it is selectedObject, the
\* hover highlight exactly when it is hoveredObject and not selectedObject, and
\* no highlight otherwise.
C28_NoStaleHighlight ==
    \A o \in DOMAIN material :
        /\ material[o] = SelectedTint <=> o = selectedObject
        /\ material[o] = HoverTint <=> (o = hoveredObject /\ o # selectedObject)
        /\ (o # hoveredObject /\ o # selectedObject) => Unlit(material[o])

\* after a registration: one object selected, another hovered, a third whose
\* highlight was cleared and the newly added one never lit
C28_Witness ==
    /\ Len(objects) = NumPrepop + MaxSceneAdded
    /\ selectedObject # null
    /\ hoveredObject # null
    /\ hoveredObject # selectedObject
    /\ material[selectedObject] = SelectedTint
    /\ material[hoveredObject] = HoverTint
    /\ \E o \in DOMAIN material : material[o] = NoTint

\* C29 (as stated): a touchstart, touchmove, touchend or touchcancel on the
\* joystick base leaves hoveredObject, selectedObject and every highlight
\* unchanged.  Violated: the touchend bubbles to the window's listener.
C29_JoystickTouchKeepsSelection ==
    [][lastEvent' \in JoystickEvents => UNCHANGED selectionVars]_vars

\* C30: with several loads in flight, each successful completion makes
\* loadedTexture the texture of the load that has just completed, so after two
\* successes it is the one that completed last, whatever the request order.
C30_LastCompletedLoadWins ==
    [][lastEvent' = "texture_loaded"
         => \E l \in textureLoads : /\ textureLoads' = textureLoads \ {l}
                                    /\ loadedTexture' = l.texture]_vars

\* two loads were in flight; texture 2, requested second, completed first (it
\* was applied to an object meanwhile) and texture 1 completed last
C30_Witness ==
    /\ lastEvent = "texture_loaded"
    /\ texturesCreated = 2
    /\ textureLoads = {}
    /\ \E o \in DOMAIN materialMap : materialMap[o] = 2
    /\ loadedTexture = 1

\* the statements that use the scene, the camera or the renderer
SceneUses == {"scene.add(dataPoints)", "scene.add(backgroundSphere)",
              "scene.add(ambientLight)", "scene.add(pointLight)",
              "scene.add(pointLight2)", "animate()"}

\* C31 (as stated): in the data-cloud demo, whenever a statement that adds an
\* object or light to the scene runs, and when the first animate() frame runs,
\* init() has already created the scene, the camera and the renderer.
\* Violated: scene.add(dataPoints) runs with scene still undefined.
C31_InitBeforeSceneUse ==
    [][(statement \in SceneUses /\ statement' # statement)
         => /\ scene # undefined
            /\ camera # undefined
            /\ renderer # undefined]_vars
====
